---------------------------- MODULE Spec2Model ----------------------------
(***************************************************************************)
(* Revenue Agent backend (gracejag/Procoagent): the anomaly detection      *)
(* engine (app/services/anomaly_detection.py) and the Celery task that     *)
(* turns its verdict into an alert (app/tasks/check_anomalies.py), with    *)
(* the alert's lifecycle (app/models/alert.py) and the severity filter of  *)
(* the notification preferences (app/models/notification_preferences.py).  *)
(*                                                                         *)
(* Numbers.  Python floats are modelled by exact values:                   *)
(*   - a rational is a pair <<n, d>> in lowest terms with d > 0;           *)
(*   - a standard deviation or a z-score, which is a rational divided by   *)
(*     the square root of a rational, is the record [ssq |-> q] holding    *)
(*     its signed square q = x * |x|.  x |-> x * |x| is strictly           *)
(*     increasing, so comparisons of such values are comparisons of their  *)
(*     signed squares.                                                     *)
(* A Python exception is the value Raised.                                 *)
(***************************************************************************)
EXTENDS Integers, Sequences, FiniteSets, TLC

VARIABLES
    daily_totals,   \* per business, its stored daily revenue: Seq of [date, revenue]
    now,            \* datetime.utcnow(), as a day number (day 0 is a Monday)
    dates_typed,    \* TRUE iff func.date() yields date objects (have .weekday)
    detector,       \* the AnomalyDetector under test: [business_id, threshold_std]
    verdict,        \* what the last detect_anomaly call fetched and returned
    fn_in,          \* arguments of the engine function under test
    fn_out,         \* its return value
    alerts,         \* the alerts table: Seq of [business_id, severity, status, created_at]
    task,           \* per worker slot: the check_business_anomaly run it executes
    dispatched      \* alerts handed to NotificationService

vars == <<daily_totals, now, dates_typed, detector, verdict,
          fn_in, fn_out, alerts, task, dispatched>>

engine_vars == <<daily_totals, now, dates_typed, detector, verdict>>
fn_vars == <<fn_in, fn_out>>
task_vars == <<alerts, task, dispatched>>

-----------------------------------------------------------------------------
(* Exact arithmetic *)

Abs(x) == IF x < 0 THEN -x ELSE x

Sign(x) == IF x < 0 THEN -1 ELSE IF x = 0 THEN 0 ELSE 1

RECURSIVE GCD(_, _)
GCD(a, b) == IF b = 0 THEN a ELSE GCD(b, a % b)

\* The rational n/d (d # 0) in lowest terms with a positive denominator.
Rat(n, d) ==
    LET g == GCD(Abs(n), Abs(d))
        s == IF d < 0 THEN -1 ELSE 1
    IN  <<(s * n) \div g, (s * d) \div g>>

RInt(i) == <<i, 1>>
RAdd(p, q) == Rat(p[1] * q[2] + q[1] * p[2], p[2] * q[2])
RSub(p, q) == Rat(p[1] * q[2] - q[1] * p[2], p[2] * q[2])
RMul(p, q) == Rat(p[1] * q[1], p[2] * q[2])
RNeg(p) == <<-p[1], p[2]>>
RSign(p) == Sign(p[1])
RLess(p, q) == p[1] * q[2] < q[1] * p[2]
RAbs(p) == <<Abs(p[1]), p[2]>>

\* A Python exception (ZeroDivisionError, StatisticsError, ...).
Raised == [tag |-> "raise"]

\* p / q; Python raises ZeroDivisionError for q = 0.
RDiv(p, q) == IF q[1] = 0 THEN Raised ELSE Rat(p[1] * q[2], p[2] * q[1])

\* The value x of a float whose signed square x*|x| is the rational q.
Root(q) == [ssq |-> q]
\* A rational as such a value.
RootOf(p) == [ssq |-> RMul(p, RAbs(p))]
RootZero == [ssq |-> RInt(0)]
RootIsZero(s) == s.ssq[1] = 0
\* s < p, for s a root value and p a rational.
RootLessRat(s, p) == RLess(s.ssq, RMul(p, RAbs(p)))
\* p / s, for p a rational and s a root value.
RatDivRoot(p, s) ==
    IF RootIsZero(s) THEN Raised
    ELSE Root(RMul(RInt(Sign(s.ssq[1])), RDiv(RMul(p, RAbs(p)), RAbs(s.ssq))))

RECURSIVE SumSeq(_)
SumSeq(s) == IF s = <<>> THEN 0 ELSE s[1] + SumSeq(Tail(s))

RECURSIVE SumSq(_)
SumSq(s) == IF s = <<>> THEN 0 ELSE s[1] * s[1] + SumSq(Tail(s))

\* Python's values[-k:] for 1 <= k; the whole list when k exceeds its length.
LastN(s, k) == IF k >= Len(s) THEN s ELSE SubSeq(s, Len(s) - k + 1, Len(s))
\* Mutant: one value short (values[:k - 1]).
FirstNShort(s, k) == IF k - 1 >= Len(s) THEN s ELSE SubSeq(s, 1, k - 1)

\* Python's values[:k].
FirstN(s, k) == IF k >= Len(s) THEN s ELSE SubSeq(s, 1, k)

\* Python's values[:-1].
AllButLast(s) == IF s = <<>> THEN s ELSE SubSeq(s, 1, Len(s) - 1)

-----------------------------------------------------------------------------
(* app/services/anomaly_detection.py: AnomalyDetector *)

\* The weekday of a day number, Monday = 0 ... Sunday = 6 (date.weekday()).
weekday(d) == d % 7

\* AnomalyDetector(db, business_id, threshold_std)
AnomalyDetector(business_id, threshold) ==
    [business_id |-> business_id, threshold_std |-> threshold]

\* self.get_daily_totals(days): the business's stored days not older than
\* `days`, in date order.
get_daily_totals(self, days) ==
    LET InWindow(p) == p.date >= now - days
    IN  SelectSeq(daily_totals[self.business_id], InWindow)

\* Mutant: the window is taken at the head of the list (values[:window]).
calculate_rolling_average_head(values, window) ==
    IF values = <<>> THEN RInt(0)
    ELSE IF Len(values) < window
         THEN RDiv(RInt(SumSeq(values)), RInt(Len(values)))
         ELSE RDiv(RInt(SumSeq(FirstN(values, window))), RInt(window))

\* calculate_rolling_average(values, window)
calculate_rolling_average(values, window) ==
    IF values = <<>> THEN RInt(0)
    ELSE IF Len(values) < window
         THEN RDiv(RInt(SumSeq(values)), RInt(Len(values)))
         ELSE RDiv(RInt(SumSeq(LastN(values, window))), RInt(window))

\* statistics.stdev(values): the square root of the sample variance; raises
\* StatisticsError for fewer than two values.
stdev(values) ==
    LET n == Len(values)
    IN  IF n < 2 THEN Raised
        ELSE Root(Rat(n * SumSq(values) - SumSeq(values) * SumSeq(values),
                      n * (n - 1)))

\* Mutant: the population standard deviation (denominator n).
calculate_std_dev_population(values) ==
    IF Len(values) < 2 THEN RootZero
    ELSE Root(Rat(Len(values) * SumSq(values) - SumSeq(values) * SumSeq(values),
                  Len(values) * Len(values)))

\* calculate_std_dev(values)
calculate_std_dev(values) ==
    IF Len(values) < 2 THEN RootZero
    ELSE IF stdev(values) = Raised THEN RootZero
         ELSE stdev(values)

\* Mutant: with a zero standard deviation any difference counts as ten
\* standard deviations.
calculate_z_score_saturating(value, mean, std_dev) ==
    IF RootIsZero(std_dev)
    THEN RootOf(RInt(10 * RSign(RSub(value, mean))))
    ELSE RatDivRoot(RSub(value, mean), std_dev)

\* Mutant: no guard against a zero standard deviation.
calculate_z_score_unguarded(value, mean, std_dev) ==
    RatDivRoot(RSub(value, mean), std_dev)

\* Mutant: the difference is taken the other way round.
calculate_z_score_flipped(value, mean, std_dev) ==
    IF RootIsZero(std_dev) THEN RootZero
    ELSE RatDivRoot(RSub(mean, value), std_dev)

\* calculate_z_score(value, mean, std_dev)
calculate_z_score(value, mean, std_dev) ==
    IF RootIsZero(std_dev) THEN RootZero
    ELSE RatDivRoot(RSub(value, mean), std_dev)

\* Mutant: every fetched point counts, whatever its weekday.
get_day_of_week_baseline_all(self, target_dow, days) ==
    LET fetched == get_daily_totals(self, days)
        dow_values == [i \in 1..Len(fetched) |-> fetched[i].revenue]
    IN  IF dow_values = <<>> THEN RInt(0)
        ELSE RDiv(RInt(SumSeq(dow_values)), RInt(Len(dow_values)))

\* get_day_of_week_baseline(target_dow, days): its own fetch of the series.
get_day_of_week_baseline(self, target_dow, days) ==
    LET fetched == get_daily_totals(self, days)
        OnDow(p) == dates_typed /\ weekday(p.date) = target_dow
        matching == SelectSeq(fetched, OnDow)
        dow_values == [i \in 1..Len(matching) |-> matching[i].revenue]
    IN  IF dow_values = <<>> THEN RInt(0)
        ELSE RDiv(RInt(SumSeq(dow_values)), RInt(Len(dow_values)))

\* Mutant: the boundaries are inclusive.
calculate_severity_inclusive(z_score, drop_percent) ==
    IF ~RLess(RInt(-9), z_score.ssq) \/ ~RLess(drop_percent, RInt(40))
    THEN "high"
    ELSE IF ~RLess(RInt(-4), z_score.ssq) \/ ~RLess(drop_percent, RInt(25))
         THEN "medium"
         ELSE "low"

\* _calculate_severity(z_score, drop_percent)
calculate_severity(z_score, drop_percent) ==
    IF RootLessRat(z_score, RInt(-3)) \/ RLess(RInt(40), drop_percent)
    THEN "high"
    ELSE IF RootLessRat(z_score, RInt(-2)) \/ RLess(RInt(25), drop_percent)
         THEN "medium"
         ELSE "low"

\* Python's None.
None == [tag |-> "None"]

\* Mutant: the drop alone decides.
is_anomaly_drop_only(self, z_score, drop_percent) ==
    RLess(RInt(15), drop_percent)

\* Mutant: half the threshold is enough.
is_anomaly_half_threshold(self, z_score, drop_percent) ==
    /\ RootLessRat(z_score, RNeg(RMul(self.threshold_std, Rat(1, 2))))
    /\ RLess(RInt(15), drop_percent)

\* Mutant: the z-score alone decides.
is_anomaly_z_only(self, z_score, drop_percent) ==
    RootLessRat(z_score, RNeg(self.threshold_std))

\* Mutant: a disjunction in place of the conjunction.
is_anomaly_either(self, z_score, drop_percent) ==
    \/ RootLessRat(z_score, RNeg(self.threshold_std))
    \/ RLess(RInt(15), drop_percent)

\* The anomaly test of detect_anomaly: is_anomaly.
is_anomaly(self, z_score, drop_percent) ==
    /\ RootLessRat(z_score, RNeg(self.threshold_std))
    /\ RLess(RInt(15), drop_percent)

\* Mutant: the drop is computed whatever the 7-day average is.
drop_percent_unguarded(rolling_avg_7, today_revenue) ==
    IF RDiv(RSub(rolling_avg_7, today_revenue), rolling_avg_7) = Raised
    THEN Raised
    ELSE RMul(RDiv(RSub(rolling_avg_7, today_revenue), rolling_avg_7), RInt(100))

\* drop_percent of detect_anomaly.
drop_percent_of(rolling_avg_7, today_revenue) ==
    IF RLess(RInt(0), rolling_avg_7)
    THEN IF RDiv(RSub(rolling_avg_7, today_revenue), rolling_avg_7) = Raised
         THEN Raised
         ELSE RMul(RDiv(RSub(rolling_avg_7, today_revenue), rolling_avg_7),
                   RInt(100))
    ELSE RInt(0)

\* Mutant: the guard counts the days between the first and the last date.
insufficient_data_by_span(fetched) ==
    IF fetched = <<>> THEN TRUE
    ELSE fetched[Len(fetched)].date - fetched[1].date < 6

\* Mutant: the guard lets a six-point series through.
insufficient_data_six(fetched) == Len(fetched) < 6

\* The guard of detect_anomaly: not enough data to detect anomalies reliably.
insufficient_data(fetched) == Len(fetched) < 7

\* Mutant: the weekday is always taken from the clock.
today_dow_clock(today_date) == weekday(now)

\* today_dow of detect_anomaly: the weekday of the last point's date, or the
\* current UTC weekday when the date has no weekday attribute.
today_dow_of(today_date) ==
    IF dates_typed THEN weekday(today_date) ELSE weekday(now)

\* self.detect_anomaly(reference_date): the value returned, None, or Raised.
\* The body never reads reference_date.
detect_anomaly(self, reference_date) ==
    LET fetched == get_daily_totals(self, 60)
    IN  IF insufficient_data(fetched) THEN None
        ELSE
        LET revenues == [i \in 1..Len(fetched) |-> fetched[i].revenue]
            today_revenue == IF revenues # <<>> THEN revenues[Len(revenues)] ELSE 0
            historical_revenues ==
                IF Len(revenues) > 1 THEN AllButLast(revenues) ELSE revenues
            rolling_avg_7 == calculate_rolling_average(historical_revenues, 7)
            rolling_avg_30 == calculate_rolling_average(historical_revenues, 30)
            std_dev == calculate_std_dev(historical_revenues)
            z_score == calculate_z_score(RInt(today_revenue), rolling_avg_7, std_dev)
            today_date == IF fetched # <<>> THEN fetched[Len(fetched)].date ELSE now
            today_dow == today_dow_of(today_date)
            dow_baseline == get_day_of_week_baseline(self, today_dow, 60)
            drop_percent == drop_percent_of(rolling_avg_7, RInt(today_revenue))
        IN  IF Raised \in {rolling_avg_7, rolling_avg_30, z_score,
                           dow_baseline, drop_percent}
            THEN Raised
            ELSE IF ~is_anomaly(self, z_score, drop_percent) THEN None
            ELSE [tag |-> "dict",
                  detected |-> TRUE,
                  today_revenue |-> today_revenue,
                  rolling_avg_7 |-> rolling_avg_7,
                  rolling_avg_30 |-> rolling_avg_30,
                  z_score |-> z_score,
                  drop_percent |-> drop_percent,
                  severity |-> calculate_severity(z_score, drop_percent),
                  dow_baseline |-> dow_baseline,
                  dow_adjusted |-> RLess(RInt(0), dow_baseline),
                  std_dev |-> std_dev,
                  data_points |-> Len(historical_revenues)]

\* A standard deviation divided by a float, and multiplied by one.
RootDivRat(s, p) ==
    IF p[1] = 0 THEN Raised ELSE Root(RDiv(s.ssq, RMul(p, RAbs(p))))
RootMulRat(s, p) == Root(RMul(s.ssq, RMul(p, RAbs(p))))

\* Mutant: the guard lets a six-point series through.
trend_insufficient_data_six(fetched) == Len(fetched) < 6

\* The guard of get_trend_analysis.
trend_insufficient_data(fetched) == Len(fetched) < 7

\* change_percent of get_trend_analysis.
trend_change_percent(first_week_avg, last_week_avg) ==
    IF RLess(RInt(0), first_week_avg)
    THEN IF RDiv(RSub(last_week_avg, first_week_avg), first_week_avg) = Raised
         THEN Raised
         ELSE RMul(RDiv(RSub(last_week_avg, first_week_avg), first_week_avg),
                   RInt(100))
    ELSE RInt(0)

\* Mutant: the boundaries are inclusive.
trend_direction_inclusive(change_percent) ==
    IF ~RLess(change_percent, RInt(5)) THEN "up"
    ELSE IF ~RLess(RInt(-5), change_percent) THEN "down"
         ELSE "stable"

\* direction of get_trend_analysis.
trend_direction(change_percent) ==
    IF RLess(RInt(5), change_percent) THEN "up"
    ELSE IF RLess(change_percent, RInt(-5)) THEN "down"
         ELSE "stable"

\* volatility of get_trend_analysis: the coefficient of variation, in percent.
trend_volatility(std_dev, mean_revenue) ==
    IF RLess(RInt(0), mean_revenue)
    THEN IF RootDivRat(std_dev, mean_revenue) = Raised THEN Raised
         ELSE RootMulRat(RootDivRat(std_dev, mean_revenue), RInt(100))
    ELSE RootZero

\* self.get_trend_analysis(days): the dict returned, or Raised.
get_trend_analysis(self, days) ==
    LET fetched == get_daily_totals(self, days)
    IN  IF trend_insufficient_data(fetched)
        THEN [tag |-> "dict",
              direction |-> "unknown",
              change_percent |-> RInt(0),
              volatility |-> RootZero,
              data_points |-> Len(fetched)]
        ELSE
        LET revenues == [i \in 1..Len(fetched) |-> fetched[i].revenue]
            first_week_avg == calculate_rolling_average(FirstN(revenues, 7), 7)
            last_week_avg == calculate_rolling_average(LastN(revenues, 7), 7)
            change_percent ==
                IF Raised \in {first_week_avg, last_week_avg} THEN Raised
                ELSE trend_change_percent(first_week_avg, last_week_avg)
            mean_revenue ==
                IF revenues # <<>>
                THEN RDiv(RInt(SumSeq(revenues)), RInt(Len(revenues)))
                ELSE RInt(0)
            std_dev == calculate_std_dev(revenues)
            volatility ==
                IF mean_revenue = Raised THEN Raised
                ELSE trend_volatility(std_dev, mean_revenue)
        IN  IF Raised \in {change_percent, volatility} THEN Raised
            ELSE [tag |-> "dict",
                  direction |-> trend_direction(change_percent),
                  change_percent |-> change_percent,
                  volatility |-> volatility,
                  first_week_avg |-> first_week_avg,
                  last_week_avg |-> last_week_avg,
                  data_points |-> Len(revenues)]

-----------------------------------------------------------------------------
(* The engine called on the stored series of one business *)

\* Daily revenue totals the model draws from: a series is drawn from an
\* ordinary week's levels, or from the degenerate ones (no revenue, refunds
\* exceeding sales).
NormalRevenues == {6, 9, 10}
EdgeRevenues == {-10, 0, 10}
Revenues == NormalRevenues \cup EdgeRevenues
\* Longest stored series.
MaxLen == 9
\* Configured thresholds (threshold_std): the default 2.0 and a laxer 1.0.
Thresholds == {RInt(1), RInt(2)}

NotCalled == [called |-> FALSE]

FnIdle == [fn |-> "none"]

\* Businesses with stored transactions (Business.id).
NumBusinesses == 2
Businesses == 1..NumBusinesses

\* Celery's worker_concurrency: the worker runs this many tasks at a time.
worker_concurrency == 2
Workers == 1..worker_concurrency

\* A worker slot with no task.
IdleTask == [pc |-> "idle"]

\* No task running, no alert stored, nothing sent.
TaskIdle ==
    /\ alerts = <<>>
    /\ task = [w \in Workers |-> IdleTask]
    /\ dispatched = {}

\* The series of the business the detector under test was built for.
series_of_detector == daily_totals[detector.business_id]

\* A detector built for business 1, which has no stored day yet.
EngineInit ==
    /\ daily_totals = [b \in Businesses |-> <<>>]
    /\ now = 0
    /\ detector \in {AnomalyDetector(1, t) : t \in Thresholds}
    /\ verdict = NotCalled
    /\ fn_in = FnIdle
    /\ fn_out = FnIdle
    /\ TaskIdle

\* The configured database is PostgreSQL, whose func.date() yields dates.
Init ==
    /\ EngineInit
    /\ dates_typed = TRUE

\* The revenues stored so far for the detector's business, with one more.
levels_with(r) ==
    {series_of_detector[i].revenue : i \in 1..Len(series_of_detector)} \cup {r}

\* A day passes and the business's transactions of that day are stored: the
\* day's total is r.
RecordDay(r) ==
    /\ Len(series_of_detector) < MaxLen
    /\ levels_with(r) \subseteq NormalRevenues \/ levels_with(r) \subseteq EdgeRevenues
    /\ now' = now + 1
    /\ daily_totals' =
           [daily_totals EXCEPT
               ![detector.business_id] = Append(@, [date |-> now + 1, revenue |-> r])]
    /\ verdict' = NotCalled
    /\ UNCHANGED <<dates_typed, detector, fn_vars, task_vars>>

\* Mutant: the engine stores an alert itself when it detects an anomaly.
DetectAnomalyAlerting ==
    /\ verdict' = [called |-> TRUE,
                   series |-> get_daily_totals(detector, 60),
                   threshold |-> detector.threshold_std,
                   at |-> now,
                   first_at |-> IF verdict.called THEN verdict.first_at ELSE now,
                   value |-> detect_anomaly(detector, None)]
    /\ alerts' = IF detect_anomaly(detector, None) \notin {None, Raised}
                 THEN Append(alerts,
                          [id |-> Len(alerts) + 1,
                           business_id |-> detector.business_id,
                           severity |-> detect_anomaly(detector, None).severity,
                           status |-> "pending",
                           created_at |-> now])
                 ELSE alerts
    /\ UNCHANGED <<daily_totals, now, dates_typed, detector, fn_vars, task, dispatched>>

\* detector.detect_anomaly() is called.  verdict keeps what the call fetched,
\* the threshold it ran with, when it ran, when the first call on this series
\* ran, and what it returned.
DetectAnomaly ==
    /\ verdict' = [called |-> TRUE,
                   series |-> get_daily_totals(detector, 60),
                   threshold |-> detector.threshold_std,
                   at |-> now,
                   first_at |-> IF verdict.called THEN verdict.first_at ELSE now,
                   value |-> detect_anomaly(detector, None)]
    /\ UNCHANGED <<daily_totals, now, dates_typed, detector, fn_vars, task_vars>>

Next ==
    \/ \E r \in Revenues : RecordDay(r)
    \/ DetectAnomaly

Spec == Init /\ [][Next]_vars

-----------------------------------------------------------------------------
(* The engine called at different wall-clock times, on series with gaps *)

\* Daily totals drawn when the clock also runs on days without transactions.
ClockRevenues == {6, 10}
\* Last day the clock reaches.
MaxDay == 8

\* A day passes without any transaction: the series gets no point for it.
Tick ==
    /\ now < MaxDay
    /\ now' = now + 1
    /\ UNCHANGED <<daily_totals, dates_typed, detector, verdict, fn_vars, task_vars>>

ClockRecordDay(r) ==
    /\ now < MaxDay
    /\ RecordDay(r)

ClockNext ==
    \/ \E r \in ClockRevenues : ClockRecordDay(r)
    \/ Tick
    \/ DetectAnomaly

\* The database yields dates, or strings (SQLite), which have no weekday.
ClockInit ==
    /\ EngineInit
    /\ dates_typed \in BOOLEAN

SpecClock == ClockInit /\ [][ClockNext]_vars

-----------------------------------------------------------------------------
(* app/tasks/check_anomalies.py: check_business_anomaly on the worker *)

\* Most alerts the alerts table holds.
MaxAlerts == 2
\* The task's max_retries.
max_retries == 3

\* A stored series with one point a day from day 1 on.
SeriesOf(revenues) ==
    [i \in 1..Len(revenues) |-> [date |-> i, revenue |-> revenues[i]]]

\* Seven stored days: a collapse on the last day, a dip on the last day, and
\* a flat week.
SampleSeries ==
    <<SeriesOf(<<10, 10, 10, 10, 10, 9, 6>>),
      SeriesOf(<<6, 10, 10, 10, 10, 10, 6>>),
      SeriesOf(<<10, 10, 10, 10, 10, 10, 10>>)>>

\* The businesses' stored series: the samples dealt out in turn, from any one on.
SampleStores ==
    {[b \in Businesses |-> SampleSeries[((b + k) % 3) + 1]] : k \in 0..2}

TaskInit ==
    /\ daily_totals \in SampleStores
    /\ now = 7
    /\ dates_typed = TRUE
    /\ detector = AnomalyDetector(1, RInt(2))
    /\ verdict = NotCalled
    /\ fn_in = FnIdle
    /\ fn_out = FnIdle
    /\ TaskIdle

\* The first day of the UTC date of utcnow(): today_start.
today_start == now

\* Mutant: an alert of any status counts.
is_existing_alert_any_status(a, business_id) ==
    /\ a.business_id = business_id
    /\ a.created_at >= today_start

\* The filter of create_alert_from_anomaly's query: an unresolved alert of
\* the business created today.
is_existing_alert(a, business_id) ==
    /\ a.business_id = business_id
    /\ a.created_at >= today_start
    /\ a.status \in {"pending", "acknowledged"}

existing_alert(business_id) ==
    \E i \in 1..Len(alerts) : is_existing_alert(alerts[i], business_id)

\* The worker takes check_business_anomaly(business_id) from the queue:
\* queued by check_all_businesses, or delivered again (task_acks_late).
ReceiveTask(w, business_id) ==
    /\ task[w] = IdleTask
    /\ Len(alerts) < MaxAlerts
    /\ task' = [task EXCEPT ![w] =
                   [pc |-> "detect", business_id |-> business_id, retries |-> 0,
                    timestamp |-> now,
                    anomaly |-> None, anomaly_detected |-> FALSE,
                    alert_created |-> FALSE, alert_id |-> 0]]
    /\ UNCHANGED <<alerts, dispatched, engine_vars, fn_vars>>

\* detector.detect_anomaly() and the branch on its result.
RunDetection(w) ==
    /\ task[w].pc = "detect"
    /\ LET anomaly == detect_anomaly(AnomalyDetector(task[w].business_id, RInt(2)), None)
           found == anomaly.tag = "dict" /\ anomaly.detected
       IN  /\ anomaly # Raised
           /\ task' = [task EXCEPT
                  ![w].anomaly = anomaly,
                  ![w].anomaly_detected = found,
                  ![w].pc = IF found /\ anomaly.severity \in {"medium", "high"}
                            THEN "query" ELSE "done"]
    /\ UNCHANGED <<alerts, dispatched, engine_vars, fn_vars>>

\* The detection raises (the database is unreachable): self.retry(exc=e) runs
\* the task again, up to max_retries times.
DetectionFails(w) ==
    /\ task[w].pc = "detect"
    /\ task' = [task EXCEPT ![w] =
                   IF task[w].retries < max_retries
                   THEN [task[w] EXCEPT !.retries = @ + 1]
                   ELSE IdleTask]
    /\ UNCHANGED <<alerts, dispatched, engine_vars, fn_vars>>

\* create_alert_from_anomaly: the query for an unresolved alert of today.
QueryExisting(w) ==
    /\ task[w].pc = "query"
    /\ task' = [task EXCEPT
           ![w].pc = IF existing_alert(task[w].business_id) THEN "done" ELSE "insert"]
    /\ UNCHANGED <<alerts, dispatched, engine_vars, fn_vars>>

\* create_alert_from_anomaly: db.add(alert); db.commit(); db.refresh(alert).
InsertAlert(w) ==
    /\ task[w].pc = "insert"
    /\ Len(alerts) < MaxAlerts
    /\ alerts' = Append(alerts,
           [id |-> Len(alerts) + 1,
            business_id |-> task[w].business_id,
            severity |-> task[w].anomaly.severity,
            status |-> "pending",
            created_at |-> now])
    /\ task' = [task EXCEPT
           ![w].alert_created = TRUE,
           ![w].alert_id = Len(alerts) + 1,
           ![w].pc = "done"]
    /\ UNCHANGED <<dispatched, engine_vars, fn_vars>>

\* create_alert_from_anomaly: the query or the commit raises; the handler
\* logs, rolls back and returns None.
CreateAlertFails(w) ==
    /\ task[w].pc \in {"query", "insert"}
    /\ task' = [task EXCEPT ![w].pc = "done"]
    /\ UNCHANGED <<alerts, dispatched, engine_vars, fn_vars>>

\* check_business_anomaly returns its result; the worker slot is free again.
ReturnResult(w) ==
    /\ task[w].pc = "done"
    /\ task' = [task EXCEPT ![w] = IdleTask]
    /\ UNCHANGED <<alerts, dispatched, engine_vars, fn_vars>>

\* Alert.acknowledge()
Acknowledge(i) ==
    /\ alerts' = [alerts EXCEPT ![i].status = "acknowledged"]
    /\ UNCHANGED <<task, dispatched, engine_vars, fn_vars>>

\* Alert.resolve()
Resolve(i) ==
    /\ alerts' = [alerts EXCEPT ![i].status = "resolved"]
    /\ UNCHANGED <<task, dispatched, engine_vars, fn_vars>>

\* Alert.dismiss()
Dismiss(i) ==
    /\ alerts' = [alerts EXCEPT ![i].status = "dismissed"]
    /\ UNCHANGED <<task, dispatched, engine_vars, fn_vars>>

\* The id under which the test endpoints' alert, which is no stored alert, is
\* recorded as sent.
TestAlert == 0

\* POST /notifications/test/email or /test/sms: send_email_alert or
\* send_sms_alert on a made-up alert.
SendTestNotification ==
    /\ TestAlert \notin dispatched
    /\ dispatched' = dispatched \cup {TestAlert}
    /\ UNCHANGED <<alerts, task, engine_vars, fn_vars>>

TaskNext ==
    \/ \E w \in Workers, b \in Businesses : ReceiveTask(w, b)
    \/ \E w \in Workers : RunDetection(w)
    \/ \E w \in Workers : DetectionFails(w)
    \/ \E w \in Workers : QueryExisting(w)
    \/ \E w \in Workers : InsertAlert(w)
    \/ \E w \in Workers : CreateAlertFails(w)
    \/ \E w \in Workers : ReturnResult(w)
    \/ SendTestNotification
    \/ Tick

SpecTask == TaskInit /\ [][TaskNext]_vars

\* One worker slot running the checks one after another, and the users'
\* acknowledge, resolve and dismiss on the stored alerts.
LifecycleNext ==
    \/ \E b \in Businesses : ReceiveTask(1, b)
    \/ RunDetection(1)
    \/ QueryExisting(1)
    \/ InsertAlert(1)
    \/ ReturnResult(1)
    \/ \E i \in 1..Len(alerts) : Acknowledge(i)
    \/ \E i \in 1..Len(alerts) : Resolve(i)
    \/ \E i \in 1..Len(alerts) : Dismiss(i)
    \/ Tick

SpecLifecycle == TaskInit /\ [][LifecycleNext]_vars

-----------------------------------------------------------------------------
(* Claims about detect_anomaly *)

\* The revenues of the series the last call fetched.
CalledRevenues == [i \in 1..Len(verdict.series) |-> verdict.series[i].revenue]
\* today = the last point; the history = all other points.
CalledToday == CalledRevenues[Len(CalledRevenues)]
CalledHistory == SubSeq(CalledRevenues, 1, Len(CalledRevenues) - 1)
\* The sum and the size of the 7-point window at the tail of the history.
Window7Size == IF Len(CalledHistory) < 7 THEN Len(CalledHistory) ELSE 7
Window7Sum ==
    SumSeq(SubSeq(CalledHistory, Len(CalledHistory) - Window7Size + 1,
                  Len(CalledHistory)))
\* n(n-1) times the sample variance of the history.
HistoryScatter ==
    Len(CalledHistory) * SumSq(CalledHistory)
        - SumSeq(CalledHistory) * SumSeq(CalledHistory)
\* drop_percent > 15, in integers: 100 (avg7 - today) > 15 avg7 and avg7 > 0.
DropAbove15 ==
    /\ Window7Sum > 0
    /\ 100 * (Window7Sum - Window7Size * CalledToday) > 15 * Window7Sum
\* z_score < -threshold_std for a threshold t = tn/td >= 0, in integers:
\* the variance is not 0, today is below avg7, and
\* (avg7 - today)^2 > t^2 * variance.
ZBelowThreshold ==
    LET n == Len(CalledHistory)
        gap == Window7Sum - Window7Size * CalledToday
        tn == verdict.threshold[1]
        td == verdict.threshold[2]
    IN  /\ HistoryScatter > 0
        /\ gap > 0
        /\ gap * gap * td * td * n * (n - 1)
               > tn * tn * Window7Size * Window7Size * HistoryScatter

\* C1: detect_anomaly returns Detected iff the fetched series has at least 7
\* points and both z_score < -threshold_std and drop_percent > 15 hold, with
\* today the last point and the history all other points; otherwise it
\* returns None.
C1_DetectedIffBoth ==
    verdict.called =>
        /\ verdict.value.tag \in {"dict", "None"}
        /\ verdict.value.tag = "dict" <=>
               /\ Len(verdict.series) >= 7
               /\ ZBelowThreshold
               /\ DropAbove15

\* A call that found z_score < -threshold_std but a drop of at most 15 percent.
C1_Witness ==
    /\ verdict.called
    /\ Len(verdict.series) >= 7
    /\ ZBelowThreshold
    /\ ~DropAbove15
    /\ verdict.value = None

\* C2: every series of fewer than 7 points, the empty one included, gets None
\* whatever its revenues.
C2_ShortSeriesNone ==
    (verdict.called /\ Len(verdict.series) < 7) => verdict.value = None

\* A call on six points whose last one is far below the others.
C2_Witness ==
    /\ verdict.called
    /\ Len(verdict.series) = 6
    /\ CalledToday = 6
    /\ \A i \in 1..4 : CalledRevenues[i] = 10
    /\ CalledRevenues[5] = 9
    /\ verdict.value = None

\* The keys of the dict detect_anomaly returns (and the model's tag).
DetectedKeys ==
    {"tag", "detected", "today_revenue", "rolling_avg_7", "rolling_avg_30",
     "z_score", "drop_percent", "severity", "dow_baseline", "dow_adjusted",
     "std_dev", "data_points"}

\* C8: detect_anomaly never raises; it returns None or a dict with detected
\* True that carries every field, never a dict with detected False or a
\* partial one.
C8_NoneOrFullRecord ==
    verdict.called =>
        \/ verdict.value = None
        \/ /\ verdict.value.tag = "dict"
           /\ DOMAIN verdict.value = DetectedKeys
           /\ verdict.value.detected = TRUE
           /\ verdict.value.severity \in {"low", "medium", "high"}

\* A call on a history of zero revenue and a refund day after it: both the
\* division by the standard deviation and the one by the 7-day average are the
\* ones that could raise.
C8_Witness ==
    /\ verdict.called
    /\ Len(verdict.series) >= 7
    /\ HistoryScatter = 0
    /\ Window7Sum = 0
    /\ CalledToday < 0
    /\ verdict.value = None

\* C7: two calls that fetch the same series with the same threshold return the
\* same value, field by field, whatever the time of the call and whatever was
\* called before.
C7_SameSeriesSameVerdict ==
    [][(/\ verdict.called
        /\ verdict'.called
        /\ verdict'.series = verdict.series
        /\ verdict'.threshold = verdict.threshold)
       => verdict'.value = verdict.value]_vars

\* A second call, made on a later day than the first on the same series, that
\* returned Detected with a day-of-week baseline.
C7_Witness ==
    /\ verdict.called
    /\ verdict.at > verdict.first_at
    /\ verdict.value.tag = "dict"
    /\ verdict.value.dow_adjusted

-----------------------------------------------------------------------------
(* The engine's helper functions called on their own *)

\* The detector while only a helper function is exercised.
EngineIdle ==
    /\ daily_totals = [b \in Businesses |-> <<>>]
    /\ now = 0
    /\ dates_typed = TRUE
    /\ detector = AnomalyDetector(1, RInt(2))
    /\ verdict = NotCalled

\* z-scores -sqrt(m), m up to MaxZSquare (and sqrt(1), sqrt(2) above zero).
MaxZSquare == 10
SeverityZ == {Root(RInt(-m)) : m \in -2..MaxZSquare}
\* Drops k/2 percent, k up to MaxDropHalves (and -1 percent below zero).
MaxDropHalves == 82
SeverityDrops == {Rat(k, 2) : k \in -2..MaxDropHalves}

SeverityInit ==
    /\ EngineIdle
    /\ TaskIdle
    /\ fn_in \in [fn : {"severity"}, z_score : SeverityZ, drop_percent : SeverityDrops]
    /\ fn_out = FnIdle

\* detector._calculate_severity(z_score, drop_percent) is called.
CallSeverity ==
    /\ fn_in.fn = "severity"
    /\ fn_out' = [fn |-> "severity",
                  value |-> calculate_severity(fn_in.z_score, fn_in.drop_percent)]
    /\ UNCHANGED <<fn_in, engine_vars, task_vars>>

SpecSeverity == SeverityInit /\ [][CallSeverity]_vars

\* Values of the lists handed to calculate_rolling_average.
RollValues == {0, 2, 5}
\* Longest list and largest window handed to calculate_rolling_average.
MaxRollLen == 4
MaxWindow == 5

RollLists == UNION {[1..n -> RollValues] : n \in 0..MaxRollLen}

RollingInit ==
    /\ EngineIdle
    /\ TaskIdle
    /\ fn_in \in [fn : {"rolling_average"}, values : RollLists, window : 1..MaxWindow]
    /\ fn_out = FnIdle

\* detector.calculate_rolling_average(values, window) is called.
CallRollingAverage ==
    /\ fn_in.fn = "rolling_average"
    /\ fn_out' = [fn |-> "rolling_average",
                  value |-> calculate_rolling_average(fn_in.values, fn_in.window)]
    /\ UNCHANGED <<fn_in, engine_vars, task_vars>>

SpecRolling == RollingInit /\ [][CallRollingAverage]_vars

\* Largest value and mean, and largest standard deviation in halves, handed to
\* calculate_z_score.
MaxZValue == 4
MaxStdHalves == 5
ZStdDevs == {RootOf(Rat(k, 2)) : k \in -1..MaxStdHalves}

ZScoreInit ==
    /\ EngineIdle
    /\ TaskIdle
    /\ fn_in \in [fn : {"z_score"}, value : {RInt(v) : v \in 0..MaxZValue},
                  mean : {RInt(v) : v \in 0..MaxZValue}, std_dev : ZStdDevs]
    /\ fn_out = FnIdle

\* detector.calculate_z_score(value, mean, std_dev) is called.
CallZScore ==
    /\ fn_in.fn = "z_score"
    /\ fn_out' = [fn |-> "z_score",
                  value |-> calculate_z_score(fn_in.value, fn_in.mean, fn_in.std_dev)]
    /\ UNCHANGED <<fn_in, engine_vars, task_vars>>

SpecZScore == ZScoreInit /\ [][CallZScore]_vars

-----------------------------------------------------------------------------
(* Claims about the helper functions *)

\* z < c for an integer c <= 0, on z's signed square n/d: n < -(c*c)*d.
ZBelowInt(z, c) == z.ssq[1] < -(c * c) * z.ssq[2]
\* p > c for a rational p = n/d and an integer c.
DropAboveInt(p, c) == p[1] > c * p[2]

\* C3: _calculate_severity returns high iff z_score < -3 or drop_percent > 40,
\* otherwise medium iff z_score < -2 or drop_percent > 25, otherwise low; the
\* boundaries are strict and no input yields an error.
C3_SeverityTable ==
    fn_out.fn = "severity" =>
        LET z == fn_in.z_score
            d == fn_in.drop_percent
        IN  /\ fn_out.value \in {"low", "medium", "high"}
            /\ fn_out.value = "high" <=> (ZBelowInt(z, -3) \/ DropAboveInt(d, 40))
            /\ fn_out.value = "medium" <=>
                   /\ ~(ZBelowInt(z, -3) \/ DropAboveInt(d, 40))
                   /\ (ZBelowInt(z, -2) \/ DropAboveInt(d, 25))

\* The call with z = -2 and a drop of exactly 25 percent returned low.
C3_Witness ==
    /\ fn_out.fn = "severity"
    /\ fn_in.z_score = Root(RInt(-4))
    /\ fn_in.drop_percent = RInt(25)
    /\ fn_out.value = "low"

\* The number of tail values averaged, and their sum taken by index.
RollCount == IF Len(fn_in.values) < fn_in.window THEN Len(fn_in.values) ELSE fn_in.window
RollTailSum ==
    LET v == fn_in.values
        f[i \in 0..Len(v)] == IF i = 0 THEN 0 ELSE f[i - 1] + v[Len(v) + 1 - i]
    IN  f[RollCount]

\* C9: calculate_rolling_average returns 0 for an empty list, the mean of all
\* values when there are fewer than window, and otherwise the mean of exactly
\* the last window values; for window >= len it is the mean of the list.
C9_RollingAverage ==
    fn_out.fn = "rolling_average" =>
        /\ fn_out.value # Raised
        /\ fn_in.values = <<>> => fn_out.value = RInt(0)
        /\ fn_in.values # <<>> =>
               fn_out.value[1] * RollCount = RollTailSum * fn_out.value[2]

\* A call whose window is shorter than the list and whose head differs from
\* its tail.
C9_Witness ==
    /\ fn_out.fn = "rolling_average"
    /\ fn_in.values = <<0, 5, 5>>
    /\ fn_in.window = 2
    /\ fn_out.value = RInt(5)

\* C10: calculate_z_score returns 0 whenever std_dev is 0, without raising,
\* and otherwise (value - mean) / std_dev: the result times std_dev is
\* value - mean, so for std_dev > 0 its sign is that of value - mean.
C10_ZScore ==
    fn_out.fn = "z_score" =>
        LET diff == RSub(fn_in.value, fn_in.mean)
        IN  /\ fn_out.value # Raised
            /\ RootIsZero(fn_in.std_dev) => fn_out.value = RootZero
            /\ ~RootIsZero(fn_in.std_dev) =>
                   /\ RMul(fn_out.value.ssq, fn_in.std_dev.ssq) = RMul(diff, RAbs(diff))
                   /\ fn_in.std_dev.ssq[1] > 0 =>
                          Sign(fn_out.value.ssq[1]) = Sign(diff[1])

\* A call with a zero standard deviation and a value below the mean.
C10_Witness ==
    /\ fn_out.fn = "z_score"
    /\ RootIsZero(fn_in.std_dev)
    /\ RLess(fn_in.value, fn_in.mean)
    /\ fn_out.value = RootZero

-----------------------------------------------------------------------------
(* Claims about check_business_anomaly and create_alert_from_anomaly *)

Unresolved(a) == a.status \in {"pending", "acknowledged"}

\* C4: at most one unresolved alert (pending or acknowledged) exists per
\* business per UTC day of creation, under any interleaving of
\* check_business_anomaly runs.
C4_OneUnresolvedPerDay ==
    \A i, j \in 1..Len(alerts) :
        (/\ i # j
         /\ alerts[i].business_id = alerts[j].business_id
         /\ alerts[i].created_at = alerts[j].created_at
         /\ Unresolved(alerts[i]))
        => ~Unresolved(alerts[j])

\* C5: whenever check_business_anomaly got a Detected verdict, then when the
\* task completes there is a stored unresolved alert of that business created
\* on that UTC day (not before the day the task started on).
C5_DetectedLeavesAlert ==
    \A w \in Workers :
        (task[w].pc = "done" /\ task[w].anomaly_detected) =>
            \E i \in 1..Len(alerts) :
                /\ alerts[i].business_id = task[w].business_id
                /\ Unresolved(alerts[i])
                /\ alerts[i].created_at >= task[w].timestamp

\* C6: every alert the task stores from a Detected verdict is forwarded to the
\* notification service: when the task returns, a dispatch of the alert has
\* been attempted.
C6_AlertForwarded ==
    \A w \in Workers :
        (task[w].pc = "done" /\ task[w].alert_created) =>
            task[w].alert_id \in dispatched

-----------------------------------------------------------------------------
(* calculate_std_dev called on its own *)

\* Values of the lists handed to calculate_std_dev, and the longest list.
StdValues == {0, 2, 5}
MaxStdLen == 4
StdLists == UNION {[1..n -> StdValues] : n \in 0..MaxStdLen}

StdDevInit ==
    /\ EngineIdle
    /\ TaskIdle
    /\ fn_in \in [fn : {"std_dev"}, values : StdLists]
    /\ fn_out = FnIdle

\* detector.calculate_std_dev(values) is called.
CallStdDev ==
    /\ fn_in.fn = "std_dev"
    /\ fn_out' = [fn |-> "std_dev", value |-> calculate_std_dev(fn_in.values)]
    /\ UNCHANGED <<fn_in, engine_vars, task_vars>>

SpecStdDev == StdDevInit /\ [][CallStdDev]_vars

\* The squared differences of all pairs of values, summed: n * (n - 1) times
\* the sample variance.
PairScatter(v) ==
    LET sq(x) == x * x
        row[i \in 0..Len(v)] ==
            IF i = 0 THEN 0
            ELSE row[i - 1] + SumSeq([j \in 1..(i - 1) |-> sq(v[i] - v[j])])
    IN  row[Len(v)]

\* C11: calculate_std_dev returns 0 for an empty list, a single value and a
\* list of identical values; for any other list it returns the sample
\* standard deviation (denominator n - 1), which is strictly positive.
C11_StdDev ==
    fn_out.fn = "std_dev" =>
        LET v == fn_in.values
            n == Len(v)
            identical == \A i, j \in 1..n : v[i] = v[j]
        IN  /\ fn_out.value # Raised
            /\ identical => fn_out.value = RootZero
            /\ ~identical =>
                   /\ fn_out.value.ssq[1] > 0
                   /\ fn_out.value.ssq[1] * n * (n - 1)
                          = PairScatter(v) * fn_out.value.ssq[2]

\* A call on two different values: the variance of 0 and 5 is 25/2.
C11_Witness ==
    /\ fn_out.fn = "std_dev"
    /\ fn_in.values = <<0, 5>>
    /\ fn_out.value = Root(Rat(25, 2))

-----------------------------------------------------------------------------
(* detect_anomaly and get_trend_analysis called on the same stored series *)

\* Longest stored series when the trend is analysed as well.
TrendMaxLen == 8

\* A day passes and its total r is stored; earlier results are forgotten.
TrendRecordDay(r) ==
    /\ Len(series_of_detector) < TrendMaxLen
    /\ levels_with(r) \subseteq NormalRevenues \/ levels_with(r) \subseteq EdgeRevenues
    /\ now' = now + 1
    /\ daily_totals' =
           [daily_totals EXCEPT
               ![detector.business_id] = Append(@, [date |-> now + 1, revenue |-> r])]
    /\ verdict' = NotCalled
    /\ fn_in' = FnIdle
    /\ fn_out' = FnIdle
    /\ UNCHANGED <<dates_typed, detector, task_vars>>

\* detector.get_trend_analysis() is called, with its default of 30 days.
\* fn_in keeps what the call fetched.
GetTrendAnalysis ==
    /\ fn_in' = [fn |-> "trend_analysis", series |-> get_daily_totals(detector, 30)]
    /\ fn_out' = [fn |-> "trend_analysis", value |-> get_trend_analysis(detector, 30)]
    /\ UNCHANGED <<engine_vars, task_vars>>

TrendNext ==
    \/ \E r \in Revenues : TrendRecordDay(r)
    \/ DetectAnomaly
    \/ GetTrendAnalysis

SpecTrend == Init /\ [][TrendNext]_vars

\* The revenues a trend call fetched, and their sums by index: the first
\* seven, the last seven, all of them.
TrendRevenues == [i \in 1..Len(fn_in.series) |-> fn_in.series[i].revenue]
SumFromTo(v, a, b) ==
    LET f[i \in (a - 1)..b] == IF i < a THEN 0 ELSE f[i - 1] + v[i]
    IN  f[b]
FirstWeekSum == SumFromTo(TrendRevenues, 1, 7)
LastWeekSum == SumFromTo(TrendRevenues, Len(TrendRevenues) - 6, Len(TrendRevenues))
TrendSum == SumFromTo(TrendRevenues, 1, Len(TrendRevenues))
TrendCalled == fn_out.fn = "trend_analysis"

\* C12: percentage fields degrade to 0 instead of dividing by a non-positive
\* baseline: drop_percent is 0 whenever rolling_avg_7 <= 0 (so nothing is
\* detected), change_percent is 0 whenever first_week_avg <= 0, volatility is
\* 0 whenever the mean revenue is <= 0, and neither detect_anomaly nor
\* get_trend_analysis raises.
C12_PercentagesDegrade ==
    /\ verdict.called =>
           /\ verdict.value # Raised
           /\ (Len(verdict.series) >= 7 /\ Window7Sum <= 0) =>
                  /\ drop_percent_of(
                         calculate_rolling_average(CalledHistory, 7),
                         RInt(CalledToday)) = RInt(0)
                  /\ verdict.value = None
    /\ TrendCalled =>
           /\ fn_out.value # Raised
           /\ (Len(TrendRevenues) >= 7 /\ FirstWeekSum <= 0) =>
                  fn_out.value.change_percent = RInt(0)
           /\ (Len(TrendRevenues) >= 7 /\ TrendSum <= 0) =>
                  fn_out.value.volatility = RootZero

\* Both calls on a series whose 7-day baselines are zero while the values
\* around them are not: a last day far enough below a zero 7-day average, a
\* first week summing to zero before a different last week, a negative mean.
C12_Witness ==
    /\ verdict.called
    /\ TrendCalled
    /\ Len(verdict.series) >= 7
    /\ Window7Sum = 0
    /\ CalledToday < 0
    /\ ZBelowThreshold
    /\ verdict.value = None
    /\ Len(TrendRevenues) >= 7
    /\ FirstWeekSum = 0
    /\ LastWeekSum # 0
    /\ TrendSum < 0
    /\ fn_out.value.change_percent = RInt(0)
    /\ fn_out.value.volatility = RootZero

-----------------------------------------------------------------------------
(* The engine called on a month of stored days *)

\* Revenue here is counted in tens: 100 stands for a daily total of 1000.
\* The z-score and the drop do not depend on the unit.
\* A month is 29 days of history and today.  The history runs through
\* MonthBlocks stretches of days of equal length (up to rounding), the total
\* being the same on the days of one stretch; the last stretch is the
\* 7-day window, or overlaps it.
MonthBlocks == 4
MonthDays == 30
\* Totals of a stretch: the mean, 2 percent and 10 percent off it.
MonthLevels == {90, 98, 100, 102, 110}
\* Totals of the last day: those, half the mean, and nothing.
MonthLasts == MonthLevels \cup {0, 50}

\* The stretch a day of the history belongs to.
block_of(day) == (((day - 1) * MonthBlocks) \div (MonthDays - 1)) + 1

\* The stored month with the given totals per stretch and on the last day.
MonthOf(levels, last) ==
    [day \in 1..MonthDays |->
        [date |-> day,
         revenue |-> IF day = MonthDays THEN last ELSE levels[block_of(day)]]]

MonthInit ==
    /\ \E levels \in [1..MonthBlocks -> MonthLevels], last \in MonthLasts :
           daily_totals = [b \in Businesses |->
                              IF b = 1 THEN MonthOf(levels, last) ELSE <<>>]
    /\ now = MonthDays
    /\ dates_typed = TRUE
    /\ detector \in {AnomalyDetector(1, t) : t \in Thresholds}
    /\ verdict = NotCalled
    /\ fn_in = FnIdle
    /\ fn_out = FnIdle
    /\ TaskIdle

SpecMonth == MonthInit /\ [][DetectAnomaly]_vars

\* The call fetched a 30-point series whose points in from..to all lie
\* within pct percent of 100.
MonthCalled == verdict.called /\ Len(verdict.series) = MonthDays
Within(from, to, pct) ==
    \A i \in from..to :
        /\ CalledRevenues[i] >= 100 - pct
        /\ CalledRevenues[i] <= 100 + pct

\* C13: for any 30-point series in which every value lies within 2 percent of
\* a constant positive mean, detect_anomaly returns None.
C13_StableMonthNoAnomaly ==
    (MonthCalled /\ Within(1, MonthDays, 2)) => verdict.value = None

\* A stable month whose last day is far enough below the 7-day average for
\* the z-score alone to pass the threshold.
C13_Witness ==
    /\ MonthCalled
    /\ Within(1, MonthDays, 2)
    /\ ZBelowThreshold
    /\ verdict.value = None

\* C14: for any 30-point series whose first 29 values lie within 10 percent
\* of 1000 and whose last value is 500, detect_anomaly with the default
\* threshold 2.0 returns Detected with severity other than low and
\* drop_percent > 15.
C14_HalvedDayDetected ==
    (/\ MonthCalled
     /\ Within(1, MonthDays - 1, 10)
     /\ CalledToday = 50
     /\ verdict.threshold = RInt(2)) =>
        /\ verdict.value.tag = "dict"
        /\ verdict.value.detected
        /\ verdict.value.severity # "low"
        /\ RLess(RInt(15), verdict.value.drop_percent)

\* C15: for any 30-point series whose first 29 values lie within 1000 +- 100
\* and whose last value is 0, detect_anomaly returns Detected with severity
\* high.
C15_ZeroDayHigh ==
    (/\ MonthCalled
     /\ Within(1, MonthDays - 1, 10)
     /\ CalledToday = 0) =>
        /\ verdict.value.tag = "dict"
        /\ verdict.value.detected
        /\ verdict.value.severity = "high"

-----------------------------------------------------------------------------
(* Claims about get_trend_analysis *)

\* change_percent > c and change_percent < c for an integer c, restated on the
\* sums of the first and of the last seven values: the change is
\* (last - first) / first * 100 for a positive first sum, and 0 otherwise.
ChangeAbove(c) ==
    IF FirstWeekSum > 0
    THEN 100 * (LastWeekSum - FirstWeekSum) > c * FirstWeekSum
    ELSE 0 > c
ChangeBelow(c) ==
    IF FirstWeekSum > 0
    THEN 100 * (LastWeekSum - FirstWeekSum) < c * FirstWeekSum
    ELSE 0 < c

\* C16: on a series of at least 7 points get_trend_analysis returns direction
\* up iff change_percent > 5, down iff change_percent < -5 and stable
\* otherwise (exactly 5 or -5 is stable); so up implies a positive and down a
\* negative change_percent, and the direction is never unknown.
C16_TrendDirection ==
    (TrendCalled /\ Len(TrendRevenues) >= 7) =>
        LET out == fn_out.value
        IN  /\ out # Raised
            /\ RLess(RInt(5), out.change_percent) <=> ChangeAbove(5)
            /\ RLess(out.change_percent, RInt(-5)) <=> ChangeBelow(-5)
            /\ out.direction = "up" <=> ChangeAbove(5)
            /\ out.direction = "down" <=> ChangeBelow(-5)
            /\ out.direction = "stable" <=> (~ChangeAbove(5) /\ ~ChangeBelow(-5))
            /\ out.direction = "up" => RLess(RInt(0), out.change_percent)
            /\ out.direction = "down" => RLess(out.change_percent, RInt(0))
            /\ out.direction # "unknown"

\* A last week exactly 5 percent above the first one: stable.
C16_Witness ==
    /\ TrendCalled
    /\ Len(TrendRevenues) >= 7
    /\ FirstWeekSum = 60
    /\ LastWeekSum = 63
    /\ fn_out.value.change_percent = RInt(5)
    /\ fn_out.value.direction = "stable"

\* C17: on a series of fewer than 7 points (the empty one included)
\* get_trend_analysis returns direction unknown, change_percent 0,
\* volatility 0 and data_points equal to the series length, and nothing
\* else: no average is part of the result.
C17_ShortTrendUnknown ==
    (TrendCalled /\ Len(TrendRevenues) < 7) =>
        fn_out.value = [tag |-> "dict",
                        direction |-> "unknown",
                        change_percent |-> RInt(0),
                        volatility |-> RootZero,
                        data_points |-> Len(fn_in.series)]

\* A call on six points that rise by more than 5 percent.
C17_Witness ==
    /\ TrendCalled
    /\ Len(TrendRevenues) = 6
    /\ TrendRevenues[1] = 6
    /\ TrendRevenues[6] = 10
    /\ fn_out.value.direction = "unknown"
    /\ fn_out.value.data_points = 6

-----------------------------------------------------------------------------
(* get_day_of_week_baseline called on its own *)

\* The stored days are among 1..DowMaxDay, and the call is made on the last
\* of them; a day without transactions has no row.
DowMaxDay == 8
NoRow == -1
\* Lookback windows of the call: one that cuts the stored days, and the
\* default.
DowLookbacks == {4, 60}

\* The rows of the days that have one, in date order.
RowsOf(totals) ==
    LET Stored(day) == totals[day] # NoRow
        days == SelectSeq([d \in 1..DowMaxDay |-> d], Stored)
    IN  [i \in 1..Len(days) |-> [date |-> days[i], revenue |-> totals[days[i]]]]

DowInit ==
    /\ \E totals \in [1..DowMaxDay -> ClockRevenues \cup {NoRow}] :
           daily_totals = [b \in Businesses |->
                              IF b = 1 THEN RowsOf(totals) ELSE <<>>]
    /\ now = DowMaxDay
    /\ dates_typed \in BOOLEAN
    /\ detector = AnomalyDetector(1, RInt(2))
    /\ verdict = NotCalled
    /\ fn_in \in [fn : {"dow_baseline"}, target_dow : 0..6, days : DowLookbacks]
    /\ fn_out = FnIdle
    /\ TaskIdle

\* detector.get_day_of_week_baseline(target_dow, days) is called.
CallDowBaseline ==
    /\ fn_in.fn = "dow_baseline"
    /\ fn_out' = [fn |-> "dow_baseline",
                  value |-> get_day_of_week_baseline(detector, fn_in.target_dow,
                                                     fn_in.days)]
    /\ UNCHANGED <<fn_in, engine_vars, task_vars>>

SpecDow == DowInit /\ [][CallDowBaseline]_vars

\* The stored rows of the call's lookback window whose date has a weekday,
\* which is the target one; their number and the sum of their revenues.
DowStored == daily_totals[detector.business_id]
DowMatching ==
    {i \in 1..Len(DowStored) :
        /\ DowStored[i].date >= now - fn_in.days
        /\ dates_typed
        /\ DowStored[i].date % 7 = fn_in.target_dow}
DowMatchingSum ==
    LET f[i \in 0..Len(DowStored)] ==
            IF i = 0 THEN 0
            ELSE f[i - 1] + (IF i \in DowMatching THEN DowStored[i].revenue ELSE 0)
    IN  f[Len(DowStored)]

\* C18: get_day_of_week_baseline(target_dow) returns the arithmetic mean of
\* the revenues of exactly those fetched points whose date's weekday
\* (Monday = 0 ... Sunday = 6) equals target_dow, and 0 when no fetched point
\* matches (an empty series, no point of that weekday, or dates that carry
\* no weekday).
C18_DowBaseline ==
    fn_out.fn = "dow_baseline" =>
        /\ fn_out.value # Raised
        /\ DowMatching = {} => fn_out.value = RInt(0)
        /\ DowMatching # {} =>
               fn_out.value[1] * Cardinality(DowMatching)
                   = DowMatchingSum * fn_out.value[2]

\* Two stored days of the target weekday with different totals, and a stored
\* day of another weekday between them.
C18_Witness ==
    /\ fn_out.fn = "dow_baseline"
    /\ dates_typed
    /\ fn_in.target_dow = 1
    /\ fn_in.days = 60
    /\ Len(DowStored) = 3
    /\ DowStored[1] = [date |-> 1, revenue |-> 6]
    /\ DowStored[2].date = 5
    /\ DowStored[3] = [date |-> 8, revenue |-> 10]
    /\ fn_out.value = RInt(8)

-----------------------------------------------------------------------------
(* Claims about the alert lifecycle *)

\* The place of a status in pending -> acknowledged -> resolved/dismissed.
StatusRank(status) ==
    IF status = "pending" THEN 0
    ELSE IF status = "acknowledged" THEN 1
         ELSE 2

\* C19: over any sequence of acknowledge(), resolve() and dismiss() calls on
\* an alert its status only moves forward along pending -> acknowledged ->
\* resolved/dismissed: a resolved or dismissed alert never becomes pending or
\* acknowledged again.
C19_StatusMovesForward ==
    [][\A i \in 1..Len(alerts) :
           StatusRank(alerts'[i].status) >= StatusRank(alerts[i].status)]_vars

-----------------------------------------------------------------------------
(* app/models/notification_preferences.py: NotificationPreferences *)

\* severity_levels.get(name, 2) with severity_levels = {"low": 1, "medium": 2,
\* "high": 3}.
severity_levels_get(name) ==
    IF name = "low" THEN 1
    ELSE IF name = "medium" THEN 2
         ELSE IF name = "high" THEN 3
              ELSE 2

\* Mutant: the severity has to be above the minimum.
should_notify_strict(self, severity) ==
    severity_levels_get(severity) > severity_levels_get(self.min_severity)

\* NotificationPreferences.should_notify(severity)
should_notify(self, severity) ==
    LET min_level == severity_levels_get(self.min_severity)
        alert_level == severity_levels_get(severity)
    IN  alert_level >= min_level

\* The severities, and strings that are none of them.
SeverityNames == {"low", "medium", "high"}
OtherNames == {"", "LOW", "High", "critical", "urgent"}

NotifyInit ==
    /\ EngineIdle
    /\ TaskIdle
    /\ fn_in \in [fn : {"should_notify"},
                  min_severity : SeverityNames \cup OtherNames,
                  severity : SeverityNames \cup OtherNames]
    /\ fn_out = FnIdle

\* preferences.should_notify(severity) is called.
CallShouldNotify ==
    /\ fn_in.fn = "should_notify"
    /\ fn_out' = [fn |-> "should_notify",
                  value |-> should_notify([min_severity |-> fn_in.min_severity],
                                          fn_in.severity)]
    /\ UNCHANGED <<fn_in, engine_vars, task_vars>>

SpecNotify == NotifyInit /\ [][CallShouldNotify]_vars

\* The pairs <<min_severity, severity>> with severity at or above
\* min_severity in the order low < medium < high.
AtOrAbove ==
    {<<"low", "low">>, <<"low", "medium">>, <<"low", "high">>,
     <<"medium", "medium">>, <<"medium", "high">>,
     <<"high", "high">>}
\* A name read as a severity: an unrecognised one counts as medium.
ReadAs(name) == IF name \in SeverityNames THEN name ELSE "medium"

\* C20: should_notify(severity) is true iff severity is at or above
\* min_severity in the order low < medium < high, for all nine combinations;
\* an unrecognised min_severity or severity is treated as medium.
C20_ShouldNotify ==
    fn_out.fn = "should_notify" =>
        (fn_out.value <=>
             <<ReadAs(fn_in.min_severity), ReadAs(fn_in.severity)>> \in AtOrAbove)

\* An unrecognised severity against a minimum of high: read as medium, it is
\* not notified.
C20_Witness ==
    /\ fn_out.fn = "should_notify"
    /\ fn_in.min_severity = "high"
    /\ fn_in.severity = "critical"
    /\ fn_out.value = FALSE

-----------------------------------------------------------------------------
(* NotificationPreferences.is_quiet_hours *)

\* Mutant: the end of the window is excluded.
is_quiet_hours_exclusive(self, current_time) ==
    IF ~self.quiet_hours_enabled THEN FALSE
    ELSE IF self.quiet_hours_start > self.quiet_hours_end
         THEN current_time >= self.quiet_hours_start
                  \/ current_time < self.quiet_hours_end
         ELSE self.quiet_hours_start <= current_time
                  /\ current_time < self.quiet_hours_end

\* NotificationPreferences.is_quiet_hours(current_time)
is_quiet_hours(self, current_time) ==
    IF ~self.quiet_hours_enabled THEN FALSE
    ELSE IF self.quiet_hours_start > self.quiet_hours_end
         THEN current_time >= self.quiet_hours_start
                  \/ current_time <= self.quiet_hours_end
         ELSE self.quiet_hours_start <= current_time
                  /\ current_time <= self.quiet_hours_end

\* A time of day is one of QuietSlots equal slots, counted from midnight.
QuietSlots == 6
TimesOfDay == 0..(QuietSlots - 1)

QuietInit ==
    /\ EngineIdle
    /\ TaskIdle
    /\ fn_in \in [fn : {"is_quiet_hours"},
                  quiet_hours_enabled : BOOLEAN,
                  quiet_hours_start : TimesOfDay,
                  quiet_hours_end : TimesOfDay,
                  current_time : TimesOfDay]
    /\ fn_out = FnIdle

\* preferences.is_quiet_hours(current_time) is called.
CallIsQuietHours ==
    /\ fn_in.fn = "is_quiet_hours"
    /\ fn_out' = [fn |-> "is_quiet_hours",
                  value |-> is_quiet_hours(
                      [quiet_hours_enabled |-> fn_in.quiet_hours_enabled,
                       quiet_hours_start |-> fn_in.quiet_hours_start,
                       quiet_hours_end |-> fn_in.quiet_hours_end],
                      fn_in.current_time)]
    /\ UNCHANGED <<fn_in, engine_vars, task_vars>>

SpecQuiet == QuietInit /\ [][CallIsQuietHours]_vars

\* The times met walking round the clock from start up to and including end.
QuietWindow ==
    LET span == (fn_in.quiet_hours_end - fn_in.quiet_hours_start + QuietSlots)
                    % QuietSlots
    IN  {(fn_in.quiet_hours_start + k) % QuietSlots : k \in 0..span}

\* C21: is_quiet_hours(t) is false for every t when quiet hours are disabled;
\* enabled with start > end (a window spanning midnight) it is true iff
\* t >= start or t <= end; enabled with start <= end it is true iff
\* start <= t <= end; both ends are inclusive: it is true exactly on the
\* times from start round the clock to end.
C21_QuietHours ==
    fn_out.fn = "is_quiet_hours" =>
        LET t == fn_in.current_time
            start == fn_in.quiet_hours_start
            end == fn_in.quiet_hours_end
        IN  /\ ~fn_in.quiet_hours_enabled => fn_out.value = FALSE
            /\ (fn_in.quiet_hours_enabled /\ start > end) =>
                   (fn_out.value <=> (t >= start \/ t <= end))
            /\ (fn_in.quiet_hours_enabled /\ start <= end) =>
                   (fn_out.value <=> (start <= t /\ t <= end))
            /\ fn_in.quiet_hours_enabled =>
                   (fn_out.value <=> t \in QuietWindow)

\* A window spanning midnight, asked at its very end.
C21_Witness ==
    /\ fn_out.fn = "is_quiet_hours"
    /\ fn_in.quiet_hours_enabled
    /\ fn_in.quiet_hours_start > fn_in.quiet_hours_end
    /\ fn_in.current_time = fn_in.quiet_hours_end
    /\ fn_out.value = TRUE

-----------------------------------------------------------------------------
(* detect_anomaly called with a reference date *)

\* Longest stored series when reference dates are given.
RefMaxLen == 7

\* A day passes and its total r is stored.
RefRecordDay(r) ==
    /\ Len(series_of_detector) < RefMaxLen
    /\ now' = now + 1
    /\ daily_totals' =
           [daily_totals EXCEPT
               ![detector.business_id] = Append(@, [date |-> now + 1, revenue |-> r])]
    /\ verdict' = NotCalled
    /\ UNCHANGED <<dates_typed, detector, fn_vars, task_vars>>

\* detector.detect_anomaly(reference_date) is called for a stored day.
DetectAnomalyAt(reference_date) ==
    /\ verdict' = [called |-> TRUE,
                   series |-> get_daily_totals(detector, 60),
                   threshold |-> detector.threshold_std,
                   at |-> now,
                   first_at |-> IF verdict.called THEN verdict.first_at ELSE now,
                   reference_date |-> reference_date,
                   value |-> detect_anomaly(detector, reference_date)]
    /\ UNCHANGED <<daily_totals, now, dates_typed, detector, fn_vars, task_vars>>

ReferenceNext ==
    \/ \E r \in NormalRevenues : RefRecordDay(r)
    \/ DetectAnomaly
    \/ \E d \in 1..now : DetectAnomalyAt(d)

SpecReference == Init /\ [][ReferenceNext]_vars

\* The revenue of the fetched point dated d.
RevenueDated(d) ==
    LET i == CHOOSE j \in 1..Len(verdict.series) : verdict.series[j].date = d
    IN  verdict.series[i].revenue

\* C22: detect_anomaly(reference_date = d) evaluates the revenue of the given
\* date d: the point treated as today in the verdict is the one dated d (the
\* last one when d is omitted).
C22_ReferenceDateEvaluated ==
    (verdict.called /\ verdict.value # None /\ verdict.value # Raised) =>
        verdict.value.today_revenue =
            (IF "reference_date" \in DOMAIN verdict
             THEN RevenueDated(verdict.reference_date)
             ELSE CalledToday)

-----------------------------------------------------------------------------
(* detect_anomaly step by step: its fetches of the series *)

\* Longest stored series when the fetches are followed.
FetchMaxLen == 8

\* No detect_anomaly call is running.
NoCallRunning == IF fn_in.fn = "none" THEN TRUE ELSE fn_in.pc = "returned"

\* A day passes and its total r is stored, between two calls.
FetchRecordDay(r) ==
    /\ NoCallRunning
    /\ Len(series_of_detector) < FetchMaxLen
    /\ now' = now + 1
    /\ daily_totals' =
           [daily_totals EXCEPT
               ![detector.business_id] = Append(@, [date |-> now + 1, revenue |-> r])]
    /\ verdict' = NotCalled
    /\ fn_in' = FnIdle
    /\ fn_out' = FnIdle
    /\ UNCHANGED <<dates_typed, detector, task_vars>>

\* One get_daily_totals call, as the log of fetches keeps it.
Fetch(caller, days) ==
    [by |-> caller, days |-> days, rows |-> get_daily_totals(detector, days)]

\* Mutant: the baseline is left for after the decision.
after_main_fetch_lazy(fetched) ==
    IF insufficient_data(fetched) THEN "returned" ELSE "decide"

\* Where detect_anomaly continues after its own fetch: it returns None on
\* insufficient data, and otherwise goes on to the day-of-week baseline.
after_main_fetch(fetched) ==
    IF insufficient_data(fetched) THEN "returned" ELSE "baseline_fetch"

\* detector.detect_anomaly() is entered.
EnterDetectAnomaly ==
    /\ NoCallRunning
    /\ fn_in' = [fn |-> "detect_anomaly", pc |-> "main_fetch"]
    /\ fn_out' = [fn |-> "detect_anomaly", fetches |-> <<>>]
    /\ verdict' = NotCalled
    /\ UNCHANGED <<daily_totals, now, dates_typed, detector, task_vars>>

\* daily_totals = self.get_daily_totals(days=60), and the return of None when
\* there are fewer than 7 points.
MainFetch ==
    /\ fn_in.fn = "detect_anomaly"
    /\ fn_in.pc = "main_fetch"
    /\ LET fetch == Fetch("detect_anomaly", 60)
       IN  /\ fn_out' = [fn_out EXCEPT !.fetches = Append(@, fetch)]
           /\ fn_in' = [fn_in EXCEPT !.pc = after_main_fetch(fetch.rows)]
           /\ verdict' =
                  IF after_main_fetch(fetch.rows) = "returned"
                  THEN [called |-> TRUE,
                        series |-> fetch.rows,
                        threshold |-> detector.threshold_std,
                        at |-> now,
                        first_at |-> now,
                        value |-> detect_anomaly(detector, None)]
                  ELSE verdict
    /\ UNCHANGED <<daily_totals, now, dates_typed, detector, task_vars>>

\* dow_baseline = self.get_day_of_week_baseline(today_dow), which fetches the
\* series itself.
BaselineFetch ==
    /\ fn_in.fn = "detect_anomaly"
    /\ fn_in.pc = "baseline_fetch"
    /\ fn_out' = [fn_out EXCEPT
                     !.fetches = Append(@, Fetch("get_day_of_week_baseline", 60))]
    /\ fn_in' = [fn_in EXCEPT !.pc = "decide"]
    /\ UNCHANGED <<engine_vars, task_vars>>

\* The drop, is_anomaly and the return of None or of the dict.  The stored
\* days did not change since the call was entered.
DecideAnomaly ==
    /\ fn_in.fn = "detect_anomaly"
    /\ fn_in.pc = "decide"
    /\ fn_in' = [fn_in EXCEPT !.pc = "returned"]
    /\ verdict' = [called |-> TRUE,
                   series |-> fn_out.fetches[1].rows,
                   threshold |-> detector.threshold_std,
                   at |-> now,
                   first_at |-> now,
                   value |-> detect_anomaly(detector, None)]
    /\ UNCHANGED <<daily_totals, now, dates_typed, detector, fn_out, task_vars>>

FetchNext ==
    \/ \E r \in NormalRevenues : FetchRecordDay(r)
    \/ EnterDetectAnomaly
    \/ MainFetch
    \/ BaselineFetch
    \/ DecideAnomaly

SpecFetch == Init /\ [][FetchNext]_vars

\* The fetches a running or returned call has made so far.
FetchesBy == [i \in 1..Len(fn_out.fetches) |-> fn_out.fetches[i].by]
FetchesDays == [i \in 1..Len(fn_out.fetches) |-> fn_out.fetches[i].days]

\* C23: a detect_anomaly call on at least 7 points performs exactly two
\* get_daily_totals fetches in order, its own 60-day fetch and then the
\* baseline's 60-day fetch; the baseline's fetch is made before the verdict
\* is decided, so also when the result is None; a call on fewer than 7 points
\* performs exactly one fetch.
C23_TwoFetches ==
    fn_in.fn = "detect_anomaly" =>
        /\ (fn_in.pc = "returned" /\ Len(verdict.series) >= 7) =>
               /\ FetchesBy = <<"detect_anomaly", "get_day_of_week_baseline">>
               /\ FetchesDays = <<60, 60>>
        /\ (fn_in.pc = "returned" /\ Len(verdict.series) < 7) =>
               /\ FetchesBy = <<"detect_anomaly">>
               /\ FetchesDays = <<60>>
               /\ verdict.value = None
        /\ fn_in.pc = "decide" =>
               /\ ~verdict.called
               /\ FetchesBy = <<"detect_anomaly", "get_day_of_week_baseline">>
        /\ verdict.called => fn_in.pc = "returned"

\* A call on seven points that returned None after both fetches.
C23_Witness ==
    /\ fn_in.fn = "detect_anomaly"
    /\ fn_in.pc = "returned"
    /\ Len(verdict.series) >= 7
    /\ verdict.value = None
    /\ Len(fn_out.fetches) = 2
    /\ fn_out.fetches[2].by = "get_day_of_week_baseline"

-----------------------------------------------------------------------------
(* The engine next to the orchestrator: what each of them writes *)

\* One worker slot running check_business_anomaly, and direct calls of
\* detect_anomaly and get_trend_analysis on business 1.
FrameNext ==
    \/ \E b \in Businesses : ReceiveTask(1, b)
    \/ RunDetection(1)
    \/ QueryExisting(1)
    \/ InsertAlert(1)
    \/ ReturnResult(1)
    \/ DetectAnomaly
    \/ GetTrendAnalysis
    \/ Tick

SpecFrame == TaskInit /\ [][FrameNext]_vars

\* The step is a call of the engine: a direct detect_anomaly or
\* get_trend_analysis call, or the detection inside a task.
EngineStep ==
    \/ verdict' # verdict
    \/ fn_out' # fn_out
    \/ \E w \in Workers : task[w].pc = "detect" /\ task'[w].pc # "detect"

\* The step is the insert of create_alert_from_anomaly by some task.
CreateAlertStep ==
    \E w \in Workers :
        /\ task[w].pc = "insert"
        /\ task'[w].pc = "done"
        /\ task'[w].alert_created

\* C24: detect_anomaly and get_trend_analysis leave all persistent state
\* unchanged: no stored day and no alert is created, modified or deleted by
\* them and no notification is sent; only create_alert_from_anomaly writes
\* alerts.
C24_EngineWritesNothing ==
    [][/\ EngineStep =>
              /\ daily_totals' = daily_totals
              /\ alerts' = alerts
              /\ dispatched' = dispatched
       /\ alerts' # alerts =>
              /\ CreateAlertStep
              /\ Len(alerts') = Len(alerts) + 1
              /\ SubSeq(alerts', 1, Len(alerts)) = alerts]_vars

\* Both engine functions were called, detect_anomaly returned a dict, and
\* there is no alert and no notification.
C24_Witness ==
    /\ verdict.called
    /\ verdict.value # None
    /\ verdict.value.detected
    /\ TrendCalled
    /\ alerts = <<>>
    /\ dispatched = {}

-----------------------------------------------------------------------------
(* Further claims about detect_anomaly *)

\* The last call returned a dict.
Detected == verdict.called /\ verdict.value # None /\ verdict.value # Raised

\* C25: whenever threshold_std >= 2 (the orchestrator's default 2.0 in
\* particular) a Detected verdict never has severity low, so the filter
\* severity in [medium, high] of the orchestrator discards no detected
\* anomaly; severity low comes out of detect_anomaly only for
\* threshold_std < 2.
C25_NoLowAtDefaultThreshold ==
    Detected =>
        /\ ~RLess(verdict.threshold, RInt(2)) => verdict.value.severity # "low"
        /\ verdict.value.severity = "low" => RLess(verdict.threshold, RInt(2))

\* A verdict at threshold 2 of the lowest severity it can have, medium: the
\* z-score is not below -3 and the drop not above 40.
C25_Witness ==
    /\ Detected
    /\ verdict.threshold = RInt(2)
    /\ verdict.value.severity = "medium"
    /\ ~RootLessRat(verdict.value.z_score, RInt(-3))
    /\ ~RLess(RInt(40), verdict.value.drop_percent)

\* C26: if all values but the last of a series of at least 7 points are
\* identical, detect_anomaly returns None for every value of today's
\* revenue, 0 included: zero variance forces z_score = 0, so no drop, however
\* large, is reported.
C26_ConstantHistoryNone ==
    (verdict.called /\ Len(verdict.series) >= 7 /\ HistoryScatter = 0) =>
        verdict.value = None

\* A call on a constant positive history followed by a day without revenue.
C26_Witness ==
    /\ verdict.called
    /\ Len(verdict.series) >= 7
    /\ HistoryScatter = 0
    /\ CalledHistory[1] = 10
    /\ CalledToday = 0
    /\ verdict.value = None

\* C27: every Detected verdict (threshold_std >= 0) has rolling_avg_7 > 0,
\* today_revenue < rolling_avg_7, std_dev > 0, z_score < -threshold_std,
\* drop_percent > 15 and data_points = series length - 1 >= 6; and when
\* today_revenue >= 0, drop_percent <= 100.
C27_DetectedFields ==
    Detected =>
        LET v == verdict.value
        IN  /\ RLess(RInt(0), v.rolling_avg_7)
            /\ RLess(RInt(v.today_revenue), v.rolling_avg_7)
            /\ v.std_dev.ssq[1] > 0
            /\ RootLessRat(v.z_score, RNeg(verdict.threshold))
            /\ RLess(RInt(15), v.drop_percent)
            /\ v.data_points = Len(verdict.series) - 1
            /\ v.data_points >= 6
            /\ v.today_revenue >= 0 => ~RLess(RInt(100), v.drop_percent)
            /\ v.today_revenue = CalledToday
            /\ Window7Sum > 0
            /\ HistoryScatter > 0

\* A verdict at both ends: seven points, so six in the history, and a last
\* day without revenue, so a drop of exactly 100 percent.
C27_Witness ==
    /\ Detected
    /\ verdict.value.data_points = 6
    /\ verdict.value.today_revenue = 0
    /\ verdict.value.drop_percent = RInt(100)

\* What a series of revenues and a threshold decide, dates left out: None,
\* or the fields of the dict other than dow_baseline and dow_adjusted.
DecisionOf(revenues, threshold) ==
    IF Len(revenues) < 7 THEN None
    ELSE
    LET today == revenues[Len(revenues)]
        history == SubSeq(revenues, 1, Len(revenues) - 1)
        avg_7 == calculate_rolling_average(history, 7)
        avg_30 == calculate_rolling_average(history, 30)
        std == calculate_std_dev(history)
        z == calculate_z_score(RInt(today), avg_7, std)
        drop == drop_percent_of(avg_7, RInt(today))
    IN  IF ~(RootLessRat(z, RNeg(threshold)) /\ RLess(RInt(15), drop)) THEN None
        ELSE [tag |-> "dict",
              detected |-> TRUE,
              today_revenue |-> today,
              rolling_avg_7 |-> avg_7,
              rolling_avg_30 |-> avg_30,
              z_score |-> z,
              drop_percent |-> drop,
              severity |-> calculate_severity(z, drop),
              std_dev |-> std,
              data_points |-> Len(history)]

\* A returned value without its day-of-week fields.
WithoutDow(value) ==
    IF value \in {None, Raised} THEN value
    ELSE [k \in DOMAIN value \ {"dow_baseline", "dow_adjusted"} |-> value[k]]

\* C28: the dates of the series and the day-of-week baseline have no
\* influence on the decision: the tag and, when Detected, severity, z_score,
\* drop_percent, the rolling averages and std_dev are a function of the
\* sequence of revenue values and the threshold alone, so two series with the
\* same revenues and different dates agree on them; only dow_baseline and
\* dow_adjusted may differ.
C28_DatesDoNotDecide ==
    verdict.called =>
        WithoutDow(verdict.value) = DecisionOf(CalledRevenues, verdict.threshold)

\* A Detected verdict on a series that has a day without a row, with a
\* day-of-week baseline.
C28_Witness ==
    /\ Detected
    /\ \E i \in 1..(Len(verdict.series) - 1) :
           verdict.series[i + 1].date > verdict.series[i].date + 1
    /\ verdict.value.dow_adjusted

-----------------------------------------------------------------------------
(* Further claims about get_trend_analysis *)

\* The number of points only one of the two week windows holds, on each
\* side, and the sums of those at the head and at the tail of the series.
TrendApart == Len(TrendRevenues) - 7
TrendHeadSum == SumFromTo(TrendRevenues, 1, TrendApart)
TrendTailSum ==
    SumFromTo(TrendRevenues, Len(TrendRevenues) - TrendApart + 1, Len(TrendRevenues))

\* C29: for a series of exactly 7 points the first-week and the last-week
\* window coincide, so get_trend_analysis returns change_percent 0 and
\* direction stable whatever the values; for 7 <= length < 14 the two windows
\* overlap: the averages differ only by the points outside the shared ones.
C29_OverlappingWeeks ==
    (TrendCalled /\ Len(TrendRevenues) >= 7 /\ Len(TrendRevenues) < 14) =>
        LET out == fn_out.value
        IN  /\ out # Raised
            /\ RMul(RSub(out.last_week_avg, out.first_week_avg), RInt(7))
                   = RInt(TrendTailSum - TrendHeadSum)
            /\ Len(TrendRevenues) = 7 =>
                   /\ out.first_week_avg = out.last_week_avg
                   /\ out.change_percent = RInt(0)
                   /\ out.direction = "stable"

\* Seven points rising from 6 to 10: reported as stable, without any change.
C29_Witness ==
    /\ TrendCalled
    /\ Len(TrendRevenues) = 7
    /\ \A i \in 1..3 : TrendRevenues[i] = 6
    /\ \A i \in 5..7 : TrendRevenues[i] = 10
    /\ fn_out.value.change_percent = RInt(0)
    /\ fn_out.value.direction = "stable"

-----------------------------------------------------------------------------
(* Claims about deduplication and the alert lifecycle *)

\* The alerts of a business created on the current UTC day, by index.
AlertsToday(business_id) ==
    {i \in 1..Len(alerts) :
        alerts[i].business_id = business_id /\ alerts[i].created_at >= now}

\* The step is the query of create_alert_from_anomaly by worker w, and the
\* step is its insert.
QueryStep(w) == task[w].pc = "query" /\ task'[w].pc # "query"
InsertStep(w) == task[w].pc = "insert" /\ task'[w].pc = "done"

=============================================================================
